---- MODULE Spec2Model ----
(***************************************************************************)
(* A model of polygon/environment.py: the equivalence oracle               *)
(* Environment.o1_eq_o2 over two symbolic outputs, and the life cycle of   *)
(* Environment.check (a worker process, a shared result record, a          *)
(* wall-clock deadline).                                                   *)
(***************************************************************************)
EXTENDS Integers, Sequences, FiniteSets, TLC

\* ------------------------------------------------------------------------
\* Bounds of the model
\* ------------------------------------------------------------------------
MaxBound == 2      \* row slots of one symbolic output (TableSchema.bound)
MaxCols == 2       \* columns of one symbolic output
MaxCells == 4      \* cells of the two outputs together
MaxChecks == 2     \* calls of check or disambiguate on one Environment
MaxQueries == 3    \* queries handed to disambiguate
MaxGroupRange == 1 \* group_range handed to disambiguate
MaxDisBound == 1   \* row slots of an output handed to the disambiguation formula
MaxDisCells == 5   \* cells of those outputs and of the two group tables together
MaxKeys == 2       \* entries of PKeys and of Others of a drawn table; FKeys has one less
MaxTableIds == 3   \* direct calls of next_table_id between two resets
MaxResets == 2     \* direct calls of clear

EnvBound == 3      \* Environment(schema, constraints, bound=3, ...)
SalaryLimit == 100000   \* IF(salary > 100000, 'High', 'Low')

Values == {0, 1}   \* values an SMT cell takes

\* ------------------------------------------------------------------------
\* State
\* ------------------------------------------------------------------------
VARIABLES
    outputs,   \* the two symbolic outputs handed to o1_eq_o2 (check: `outputs`)
    asg,       \* an assignment of the SMT variables Deleted / null / cell
    eq,        \* what o1_eq_o2 returned, in both argument orders
    dis,       \* disambiguate: group tables, SMTBelongsToGroup, the formula's value
    env,       \* the caller's Environment object (fields of self)
    ppc,       \* position of the caller inside check
    worker,    \* the worker process: its position inside task, succeed_prover
    ret,       \* the manager.dict() shared by caller and worker
    sigterm,   \* terminate() has been called on the worker
    cleared,   \* clear() has run in the current call of check
    result,    \* what the current call of check gave its caller
    calls,     \* calls of check made so far
    obs        \* direct calls of next_table_id, string_hash, lookup_string, clear:
               \* the last call, what it returned, and the builtin hash

ovars == <<outputs, asg, eq, dis, obs>>
cvars == <<env, ppc, worker, ret, sigterm, cleared, result, calls>>
vars == <<outputs, asg, eq, dis, env, ppc, worker, ret, sigterm, cleared, result, calls, obs>>

\* ------------------------------------------------------------------------
\* Symbolic outputs and SMT primitives
\* ------------------------------------------------------------------------
None == {"None"}                 \* lineage of an output no operator has tagged
Lineages == {None, {"Sorted"}, {"Grouped"}}

\* A literal of an ORDER BY list: a column position (1-based) or a boolean.
IntLiteral(k) == [kind |-> "Literal", type |-> "int", value |-> k, flag |-> FALSE]
BoolLiteral(b) == [kind |-> "Literal", type |-> "bool", value |-> 0, flag |-> b]

Min(a, b) == IF a <= b THEN a ELSE b

\* SMT variables, read in the assignment under consideration.
Deleted(table_id, tuple_idx) == asg[table_id].deleted[tuple_idx]
null(table_id, tuple_idx, column_id) == asg[table_id].null[tuple_idx][column_id]
cell(table_id, tuple_idx, column_id) == asg[table_id].cell[tuple_idx][column_id]

RECURSIVE Sum(_)
Sum(indicators) ==
    IF Len(indicators) = 0 THEN 0
    ELSE indicators[1] + Sum(Tail(indicators))

\* Sum([If(Not(Deleted(o.table_id, tuple_id)), Int(1), Int(0)) ...])
size(o) ==
    Sum([k \in 1..o.bound |-> IF ~Deleted(o.table_id, k - 1) THEN 1 ELSE 0])

\* ------------------------------------------------------------------------
\* Environment.o1_eq_o2
\* ------------------------------------------------------------------------
\* CellMatch with the null flags left out: the value cells alone decide.
CellMatch_ValueOnly(a, b) ==
    cell(a[1], a[2], a[3]) = cell(b[1], b[2], b[3])

\* One disjunction of f_multiplicity: the cell a of r against the cell b of t.
\* a and b are (table_id, tuple_idx, column_id) triples.
CellMatch(a, b) ==
    \/ null(a[1], a[2], a[3]) /\ null(b[1], b[2], b[3])
    \/ /\ ~(null(a[1], a[2], a[3]) \/ null(b[1], b[2], b[3]))
       /\ cell(a[1], a[2], a[3]) = cell(b[1], b[2], b[3])

\* tuple_eq without Not(Deleted(...)): deleted slots are counted too.
tuple_eq_CountingDeleted(r, tuple_idx, t) ==
    \A column_idx \in 1..Len(r.columns) :
        CellMatch(<<r.table_id, tuple_idx, r.columns[column_idx]>>, t[column_idx])

\* And(tuple_eq): slot tuple_idx of r is kept and matches the tuple t on
\* every column, columns paired by position.
tuple_eq(r, tuple_idx, t) ==
    /\ ~Deleted(r.table_id, tuple_idx)
    /\ \A column_idx \in 1..Len(r.columns) :
          CellMatch(<<r.table_id, tuple_idx, r.columns[column_idx]>>, t[column_idx])

f_multiplicity(r, t) ==
    Sum([k \in 1..r.bound |-> IF tuple_eq(r, k - 1, t) THEN 1 ELSE 0])

\* [(o1.table_id, tuple_id, column.column_id) for column in o1]
TupleOf(o, tuple_id) ==
    [column_idx \in 1..Len(o.columns) |-> <<o.table_id, tuple_id, o.columns[column_idx]>>]

lateral_bag_eq(o1, o2) ==
    \A tuple_id \in 0 .. o1.bound - 1 :
        ~Deleted(o1.table_id, tuple_id) =>
            f_multiplicity(o1, TupleOf(o1, tuple_id)) = f_multiplicity(o2, TupleOf(o1, tuple_id))

\* self.db[o.table_id, tuple_id, expression.value - 1] as the pair (VAL, NULL)
db_cell(o, tuple_id, position) ==
    [VAL |-> cell(o.table_id, tuple_id, o.columns[position + 1]),
     NULL |-> null(o.table_id, tuple_id, o.columns[position + 1])]

\* list_cell_eq with SQL's comparison, under which a null matches nothing.
list_cell_eq_NullMatchesNothing(o1_cell, o2_cell) ==
    /\ ~(o1_cell.NULL \/ o2_cell.NULL)
    /\ o1_cell.VAL = o2_cell.VAL

\* The Or of the positional constraint, over two (VAL, NULL) pairs.
list_cell_eq(o1_cell, o2_cell) ==
    \/ o1_cell.NULL /\ o2_cell.NULL
    \/ /\ ~(o1_cell.NULL \/ o2_cell.NULL)
       /\ o1_cell.VAL = o2_cell.VAL

\* sorted_columns_list_eq that compares the first position only.
sorted_columns_list_eq_FirstRowOnly(o1, o2) ==
    \A tuple_id \in 0 .. Min(Min(o1.bound, o2.bound), 1) - 1 :
        \A expression_idx \in 1..Len(o1.expressions) :
            LET expression == o1.expressions[expression_idx] IN
            \/ expression.type = "bool"
            \/ ~Deleted(o1.table_id, tuple_id) =>
                   list_cell_eq(db_cell(o1, tuple_id, expression.value - 1),
                                db_cell(o2, tuple_id, expression.value - 1))

\* And(sorted_columns_list_eq): the expressions are those of o1's node; a
\* boolean literal is skipped.
sorted_columns_list_eq(o1, o2) ==
    \A tuple_id \in 0 .. Min(o1.bound, o2.bound) - 1 :
        \A expression_idx \in 1..Len(o1.expressions) :
            LET expression == o1.expressions[expression_idx] IN
            \/ expression.type = "bool"
            \/ ~Deleted(o1.table_id, tuple_id) =>
                   list_cell_eq(db_cell(o1, tuple_id, expression.value - 1),
                                db_cell(o2, tuple_id, expression.value - 1))

BothSorted(o1, o2) ==
    /\ o1.lineage # None
    /\ o2.lineage # None
    /\ "Sorted" \in o1.lineage
    /\ "Sorted" \in o2.lineage

\* o1_eq_o2 that compares the sizes and forgets And(lateral_bag_eq).
o1_eq_o2_SizesOnly(o1, o2) ==
    IF Len(o1.columns) = Len(o2.columns)
    THEN size(o1) = size(o2)
    ELSE size(o1) > 0 \/ size(o2) > 0

o1_eq_o2(o1, o2) ==
    IF Len(o1.columns) = Len(o2.columns)
    THEN /\ size(o1) = size(o2)
         /\ lateral_bag_eq(o1, o2)
         /\ BothSorted(o1, o2) => sorted_columns_list_eq(o1, o2)
    ELSE size(o1) > 0 \/ size(o2) > 0

\* ------------------------------------------------------------------------
\* The oracle on its own: inputs drawn from bounded sets, then the two calls
\* ------------------------------------------------------------------------
\* The ORDER BY lists tried on an output of ncols columns.
SortExpressions(ncols) ==
    { <<IntLiteral(1)>>, <<BoolLiteral(TRUE), IntLiteral(ncols)>> }

\* Lineage and node expressions of an output of ncols columns.
Nodes(ncols) ==
    { [lineage |-> l, expressions |-> <<>>] : l \in Lineages \ {{"Sorted"}} }
    \cup { [lineage |-> {"Sorted"}, expressions |-> e] : e \in SortExpressions(ncols) }

Output(table_id, bound, ncols, node) ==
    [table_id |-> table_id, bound |-> bound,
     columns |-> [column_idx \in 1..ncols |-> column_idx - 1],
     lineage |-> node.lineage, expressions |-> node.expressions]

\* Every assignment of the SMT variables of one table.
Assignments(bound, ncols) ==
    [deleted : [0 .. bound - 1 -> BOOLEAN],
     null : [0 .. bound - 1 -> [0 .. ncols - 1 -> BOOLEAN]],
     cell : [0 .. bound - 1 -> [0 .. ncols - 1 -> Values]]]

\* disambiguate has not built its formula.
NoDisambiguation ==
    [calls |-> 0, satisfied |-> FALSE, pre_created_o |-> <<>>, belongs |-> <<>>,
     group_range |-> 0, int_of |-> "exact"]

NoComparison == [calls |-> 0, fwd |-> FALSE, bwd |-> FALSE, neq |-> FALSE]

\* The caller's side: nothing has been called yet.
NoCex == [present |-> FALSE, tables |-> {}]
NoRet == [status |-> "none", cex |-> NoCex, complete_time |-> "none", total_time |-> "none"]

OracleInit ==
    /\ \E b1, b2 \in 0..MaxBound, c1, c2 \in 1..MaxCols :
          /\ b1 * c1 + b2 * c2 <= MaxCells
          /\ \E n1 \in Nodes(c1), n2 \in Nodes(c2) :
                outputs = <<Output(2, b1, c1, n1), Output(3, b2, c2, n2)>>
          /\ \E a1 \in Assignments(b1, c1), a2 \in Assignments(b2, c2) :
                asg = (2 :> a1) @@ (3 :> a2)
    /\ eq = NoComparison
    /\ dis = NoDisambiguation

\* check, line 243: Not(self.o1_eq_o2(outputs[0], outputs[1]))
OracleCall ==
    /\ eq.calls = 0
    /\ eq' = [eq EXCEPT !.calls = 1,
                        !.fwd = o1_eq_o2(outputs[1], outputs[2]),
                        !.neq = ~o1_eq_o2(outputs[1], outputs[2])]
    /\ UNCHANGED <<outputs, asg, dis, obs>>
    /\ UNCHANGED cvars

\* The same call with the arguments exchanged.
OracleCallSwapped ==
    /\ eq.calls = 1
    /\ eq' = [eq EXCEPT !.calls = 2, !.bwd = o1_eq_o2(outputs[2], outputs[1])]
    /\ UNCHANGED <<outputs, asg, dis, obs>>
    /\ UNCHANGED cvars

\* ------------------------------------------------------------------------
\* The Environment object: __init__, next_table_id, load_schema, clear
\* ------------------------------------------------------------------------
\* The schema and the constraints of create_test_env.
Schema ==
    << [TableName |-> "employees", PKeys |-> <<"id">>, FKeys |-> <<>>,
        Others |-> <<"name", "salary", "dept", "gender">>],
       [TableName |-> "sales", PKeys |-> <<"product">>, FKeys |-> <<>>,
        Others |-> <<"amount", "region">>] >>

Constraints == << [kind |-> "distinct", on |-> "employees"],
                  [kind |-> "distinct", on |-> "sales"] >>

TableNames == { Schema[i].TableName : i \in 1..Len(Schema) }

\* self.table_id_counter += 1; return self.table_id_counter
next_table_id(e) == [e EXCEPT !.table_id_counter = e.table_id_counter + 1]

\* col['Name'].lower(): names are written in the letters a, b and A.
lower(name) == IF name = "A" THEN "a" ELSE name

\* The loop over PKeys (129-138): every entry becomes a column, with the
\* next column_id.
RECURSIVE PKeyColumns(_, _, _)
PKeyColumns(columns, column_id, names) ==
    IF names = <<>> THEN columns
    ELSE PKeyColumns(Append(columns, [column_id |-> column_id,
                                      column_name |-> lower(Head(names))]),
                     column_id + 1, Tail(names))

\* The loops over FKeys and Others (139-183): an entry whose name is already
\* a column of the table is skipped; column_id is the counter, which goes up
\* by one with every column appended.
RECURSIVE OtherColumns(_, _, _)
OtherColumns(columns, column_id, names) ==
    IF names = <<>> THEN columns
    ELSE LET column_name == lower(Head(names))
             has_column == \E i \in 1..Len(columns) : columns[i].column_name = column_name
         IN  IF has_column
             THEN OtherColumns(columns, column_id, Tail(names))
             ELSE OtherColumns(Append(columns, [column_id |-> column_id,
                                                column_name |-> column_name]),
                               column_id + 1, Tail(names))

\* A variant of column_schemas in which every loop starts its own column_id
\* at 0.
column_schemas_CounterPerLoop(table) ==
    LET pkeys == PKeyColumns(<<>>, 0, table.PKeys)
        fkeys == OtherColumns(pkeys, 0, table.FKeys)
    IN  OtherColumns(fkeys, 0, table.Others)

\* table_schema.columns after the three loops.
column_schemas(table) ==
    LET pkeys == PKeyColumns(<<>>, 0, table.PKeys)
        fkeys == OtherColumns(pkeys, Len(pkeys), table.FKeys)
    IN  OtherColumns(fkeys, Len(fkeys), table.Others)

\* The first loop of load_schema, from table idx on: one table id and one
\* TableSchema per table of the schema.
RECURSIVE LoadTables(_, _)
LoadTables(e, idx) ==
    IF idx > Len(e.schema) THEN e
    ELSE LET e1 == next_table_id(e)
             table_schema == [table_id |-> e1.table_id_counter,
                              table_name |-> e.schema[idx].TableName,
                              bound |-> e.bound_size,
                              columns |-> column_schemas(e.schema[idx])]
         IN  LoadTables([e1 EXCEPT !.db = Append(e1.db, table_schema)], idx + 1)

\* The second loop of load_schema: one 'primary' constraint per table with a
\* primary key and one 'eq' constraint per foreign key, appended to
\* self.constraints.
RECURSIVE SchemaConstraints(_, _)
SchemaConstraints(schema, idx) ==
    IF idx > Len(schema) THEN <<>>
    ELSE (IF Len(schema[idx].PKeys) > 0
          THEN << [kind |-> "primary", on |-> schema[idx].TableName] >> ELSE <<>>)
         \o [k \in 1..Len(schema[idx].FKeys) |-> [kind |-> "eq", on |-> schema[idx].TableName]]
         \o SchemaConstraints(schema, idx + 1)

load_schema(e) ==
    LET e1 == LoadTables([e EXCEPT !.integrity_constraints = <<>>], 1)
    IN  [e1 EXCEPT !.constraints = e1.constraints \o SchemaConstraints(e.schema, 1)]

\* Environment.__init__(schema, constraints, bound=EnvBound).  The two
\* interning dicts are sequences of <<key, value>> pairs in insertion order.
Environment(schema, constraints) ==
    LET e0 == [db |-> <<>>, bound_size |-> EnvBound, table_id_counter |-> -1,
               schema |-> schema,
               constraints |-> constraints, integrity_constraints |-> <<>>,
               string_hash_table |-> <<>>, hash_string_table |-> <<>>,
               formulas |-> <<>>, initialized |-> FALSE]
        e1 == load_schema(e0)
    IN  [e1 EXCEPT !.formulas = <<"ic">>]

\* The environment of create_test_env.
EnvInit == Environment(Schema, Constraints)

\* Environment.clear
clear(e) ==
    LET e1 == load_schema([e EXCEPT !.db = <<>>, !.table_id_counter = -1,
                                    !.string_hash_table = <<>>,
                                    !.hash_string_table = <<>>,
                                    !.formulas = <<>>])
    IN  [e1 EXCEPT !.formulas = <<"ic">>]

\* ---- string interning: string_hash, lookup_string ----
\* A str is the sequence of its characters.  A dict is the sequence of its
\* <<key, value>> pairs in insertion order, which is the order of
\* dict.values(); assigning to a key that is there keeps its place.
DictHas(d, k) == \E i \in 1..Len(d) : d[i][1] = k

DictGet(d, k) == d[CHOOSE i \in 1..Len(d) : d[i][1] = k][2]

DictSet(d, k, v) ==
    IF DictHas(d, k)
    THEN [i \in 1..Len(d) |-> IF d[i][1] = k THEN <<k, v>> ELSE d[i]]
    ELSE Append(d, <<k, v>>)

DigitChars == <<"0", "1", "2", "3", "4", "5", "6", "7", "8", "9">>

IsDigit(c) == \E i \in 1..Len(DigitChars) : DigitChars[i] = c

DigitValue(c) == (CHOOSE i \in 1..Len(DigitChars) : DigitChars[i] = c) - 1

\* The digits of a literal, after its optional sign.
Unsigned(literal) ==
    IF literal # <<>> /\ Head(literal) \in {"+", "-"} THEN Tail(literal) ELSE literal

\* int(string) raises ValueError unless the string is an optional sign and
\* decimal digits (blanks around them and underscores between them, which
\* int() also takes, are in none of the strings drawn).
IsIntLiteral(string) ==
    LET digits == Unsigned(string)
    IN  digits # <<>> /\ \A i \in 1..Len(digits) : IsDigit(digits[i])

RECURSIVE DigitsValue(_)
DigitsValue(digits) ==
    IF digits = <<>> THEN 0
    ELSE DigitsValue(SubSeq(digits, 1, Len(digits) - 1)) * 10
         + DigitValue(digits[Len(digits)])

\* int(string), for a string that int() accepts
int(string) ==
    LET value == DigitsValue(Unsigned(string))
    IN  IF Head(string) = "-" THEN 0 - value ELSE value

RECURSIVE Digits(_)
Digits(n) ==
    IF n < 10 THEN <<DigitChars[n + 1]>>
    ELSE Digits(n \div 10) \o <<DigitChars[(n % 10) + 1]>>

\* str(n) of an int
str(n) == IF n < 0 THEN <<"-">> \o Digits(0 - n) ELSE Digits(n)

\* A variant of string_hash that computes and stores the code on every call.
string_hash_NoLookup(e, hashes, x) ==
    LET string == IF x.is_str THEN x.string ELSE str(x.number)
        h == IF IsIntLiteral(string) THEN int(string) ELSE hashes[string]
    IN  [env |-> [e EXCEPT
             !.string_hash_table = DictSet(e.string_hash_table, string, h),
             !.hash_string_table = DictSet(e.hash_string_table, h, string)],
         string |-> string, ret |-> h]

\* string_hash(string): the environment after the call, the key that was
\* looked up and the code returned.  x is the argument: a str, or an int
\* that str() turns into one.  hashes is the builtin hash of this process.
string_hash(e, hashes, x) ==
    LET string == IF x.is_str THEN x.string ELSE str(x.number)
    IN  IF DictHas(e.string_hash_table, string)
        THEN [env |-> e, string |-> string,
              ret |-> DictGet(e.string_hash_table, string)]
        ELSE LET h == IF IsIntLiteral(string) THEN int(string) ELSE hashes[string]
             IN  [env |-> [e EXCEPT
                      !.string_hash_table = DictSet(e.string_hash_table, string, h),
                      !.hash_string_table = DictSet(e.hash_string_table, h, string)],
                  string |-> string, ret |-> h]

\* candidates[i] of a Python list: IndexError outside -len .. len-1.
ListIndex(list, i) ==
    IF 0 <= i /\ i < Len(list) THEN [raised |-> FALSE, value |-> list[i + 1]]
    ELSE IF 0 - Len(list) <= i /\ i < 0
         THEN [raised |-> FALSE, value |-> list[Len(list) + i + 1]]
         ELSE [raised |-> TRUE, value |-> <<>>]

\* A variant of lookup_string that indexes candidates with the code itself.
lookup_string_NoModulo(e, code) ==
    IF DictHas(e.hash_string_table, code)
    THEN [env |-> e, raised |-> FALSE, value |-> DictGet(e.hash_string_table, code)]
    ELSE LET candidates == [i \in 1..Len(e.hash_string_table) |->
                                  e.hash_string_table[i][2]]
         IN  IF Len(candidates) > 0
             THEN LET candidate == ListIndex(candidates, code)
                  IN  [env |-> e, raised |-> candidate.raised,
                       value |-> IF candidate.raised THEN <<>>
                                 ELSE candidate.value \o str(code)]
             ELSE [env |-> e, raised |-> FALSE, value |-> str(code)]

\* lookup_string(string_hash): the environment after the call and the str
\* returned, or the exception.
lookup_string(e, code) ==
    IF DictHas(e.hash_string_table, code)
    THEN [env |-> e, raised |-> FALSE, value |-> DictGet(e.hash_string_table, code)]
    ELSE LET candidates == [i \in 1..Len(e.hash_string_table) |->
                                  e.hash_string_table[i][2]]
         IN  IF Len(candidates) > 0
             THEN LET candidate == ListIndex(candidates, code % Len(candidates))
                  IN  [env |-> e, raised |-> candidate.raised,
                       value |-> IF candidate.raised THEN <<>>
                                 ELSE candidate.value \o str(code)]
             ELSE [env |-> e, raised |-> FALSE, value |-> str(code)]

\* The strings handed to string_hash (Inputs adds the int 7) and the codes
\* looked up.
Strings == { <<"7">>, <<"0", "7">>, <<"a">>, <<"b">> }

LookupCodes == {-3, -1, 0, 2, 7, 9}

Inputs ==
    { [is_str |-> TRUE, string |-> string, number |-> 0] : string \in Strings }
    \cup { [is_str |-> FALSE, string |-> <<>>, number |-> n] : n \in {7} }

NoMemo == [present |-> FALSE, code |-> 0, raised |-> FALSE, string |-> <<>>]

\* No direct call made yet on environment e: ids holds the table ids that
\* next_table_id has returned since the last reset, first the code of every
\* string at its first string_hash since the last reset, memo the first
\* lookup_string since the interning tables last changed.
Calls(e, hashes) ==
    [op |-> "none", string |-> <<>>, code |-> 0, raised |-> FALSE,
     first |-> <<>>, memo |-> NoMemo,
     ids |-> [i \in 1..Len(e.db) |-> e.db[i].table_id],
     resets |-> 0, hash |-> hashes]

NoCalls == Calls(EnvInit, [string \in Strings |-> 7])

\* ------------------------------------------------------------------------
\* Expression Encoder and Query Encoder (spec 4.2, 4.3), for the two queries
\* of test_if_expression.  t is the assignment of the source table.
\* ------------------------------------------------------------------------
\* A (value, is_null) pair of terms.
Pair(v, n) == [VAL |-> v, NULL |-> n]

\* column reference: direct cell lookup
Attribute(t, tuple_idx, column_id) ==
    Pair(t.cell[tuple_idx][column_id], t.null[tuple_idx][column_id])

\* literal: constant value, not null
Constant(v) == Pair(v, FALSE)

\* comparison: any null operand propagates null
GreaterThan(a, b) == Pair(a.VAL > b.VAL, a.NULL \/ b.NULL)

\* IF(cond, a, b): null when the condition is unknown, otherwise the taken
\* branch's value/null.  The value under a null flag is left as the true
\* branch's, so that only the flag tells the result from that branch.
IfExpression(condition, true_expr, false_expr) ==
    IF condition.NULL THEN Pair(true_expr.VAL, TRUE)
    ELSE IF condition.VAL THEN true_expr ELSE false_expr

\* project with one output column: expression[tuple_idx] is the pair the
\* Expression Encoder gives for the row; row deletion passes through
\* unchanged.
Project(t, bound, expression) ==
    [deleted |-> t.deleted,
     null |-> [tuple_idx \in 0 .. bound - 1 |-> [c \in {0} |-> expression[tuple_idx].NULL]],
     cell |-> [tuple_idx \in 0 .. bound - 1 |-> [c \in {0} |-> expression[tuple_idx].VAL]]]

\* The column_id that load_schema gave the column of that name.
ColumnId(table_idx, name) ==
    LET columns == column_schemas(Schema[table_idx])
    IN  columns[CHOOSE i \in 1..Len(columns) : columns[i].column_name = name].column_id

\* SELECT IF(salary > 100000, 'High', 'Low') FROM employees
IfQuery(t) ==
    Project(t, EnvBound,
            [tuple_idx \in 0 .. EnvBound - 1 |->
                IfExpression(GreaterThan(Attribute(t, tuple_idx, ColumnId(1, "salary")),
                                         Constant(SalaryLimit)),
                             Constant("High"), Constant("Low"))])

\* SELECT 'High' FROM employees
HighQuery(t) == Project(t, EnvBound, [tuple_idx \in 0 .. EnvBound - 1 |-> Constant("High")])

\* The employees table, as far as the two queries read it.
EmployeesTables ==
    [deleted : [0 .. EnvBound - 1 -> BOOLEAN],
     null : [0 .. EnvBound - 1 -> [{ColumnId(1, "salary")} -> BOOLEAN]],
     cell : [0 .. EnvBound - 1 -> [{ColumnId(1, "salary")} -> {SalaryLimit, SalaryLimit + 1}]]]

Unsorted == [lineage |-> None, expressions |-> <<>>]

\* test_if_expression: the outputs of q1 and q2 over one employees table.
IfInit ==
    /\ outputs = <<Output(2, EnvBound, 1, Unsorted), Output(3, EnvBound, 1, Unsorted)>>
    /\ \E t \in EmployeesTables :
          asg = (0 :> t) @@ (2 :> IfQuery(t)) @@ (3 :> HighQuery(t))
    /\ eq = NoComparison
    /\ dis = NoDisambiguation

\* comparison: any null operand propagates null
Equals(a, b) == Pair(a.VAL = b.VAL, a.NULL \/ b.NULL)

\* A row of t takes part in an aggregate when it is kept, the condition
\* holds on it (is true, not unknown) and the aggregated value is not null.
\* x[tuple_idx] and condition[tuple_idx] are the pairs of the row.
Aggregated(t, tuple_idx, x, condition) ==
    /\ ~t.deleted[tuple_idx]
    /\ ~condition[tuple_idx].NULL /\ condition[tuple_idx].VAL
    /\ ~x[tuple_idx].NULL

\* SUM(x) FILTER (WHERE condition): SUM over exactly the rows where the
\* condition holds; as in SQL, null inputs are skipped and the sum of no
\* input is null.
FilteredAggregate(t, bound, x, condition) ==
    Pair(Sum([k \in 1..bound |->
                 IF Aggregated(t, k - 1, x, condition) THEN x[k - 1].VAL ELSE 0]),
         \A tuple_idx \in 0 .. bound - 1 : ~Aggregated(t, tuple_idx, x, condition))

\* SUM(x): no condition, the plain aggregate.
Aggregate(t, bound, x) ==
    FilteredAggregate(t, bound, x, [tuple_idx \in 0 .. bound - 1 |-> Constant(TRUE)])

\* aggregate without GROUP BY: one output row for the one group of the
\* source rows, none when the source has no row.
AggregateTable(t, bound, aggregate) ==
    [deleted |-> [tuple_idx \in {0} |-> \A i \in 0 .. bound - 1 : t.deleted[i]],
     null |-> [tuple_idx \in {0} |-> [c \in {0} |-> aggregate.NULL]],
     cell |-> [tuple_idx \in {0} |-> [c \in {0} |-> aggregate.VAL]]]

\* SELECT SUM(amount) FILTER (WHERE region = 'North') FROM sales
NorthSumQuery(t) ==
    AggregateTable(t, EnvBound,
        FilteredAggregate(t, EnvBound,
            [tuple_idx \in 0 .. EnvBound - 1 |->
                Attribute(t, tuple_idx, ColumnId(2, "amount"))],
            [tuple_idx \in 0 .. EnvBound - 1 |->
                Equals(Attribute(t, tuple_idx, ColumnId(2, "region")), Constant("North"))]))

\* SELECT SUM(amount) FROM sales
SumQuery(t) ==
    AggregateTable(t, EnvBound,
        Aggregate(t, EnvBound,
            [tuple_idx \in 0 .. EnvBound - 1 |->
                Attribute(t, tuple_idx, ColumnId(2, "amount"))]))

Amounts == {-1, 0, 1}
Regions == {"North", "South"}

\* The sales table, as far as the two queries read it.
SalesTables ==
    [deleted : [0 .. EnvBound - 1 -> BOOLEAN],
     null : [0 .. EnvBound - 1 -> [{ColumnId(2, "amount"), ColumnId(2, "region")} -> BOOLEAN]],
     cell : [0 .. EnvBound - 1 ->
                { (ColumnId(2, "amount") :> a) @@ (ColumnId(2, "region") :> r) :
                      a \in Amounts, r \in Regions }]]

Grouped == [lineage |-> {"Grouped"}, expressions |-> <<>>]

\* test_filter_clause: the outputs of q1 and q2 over one sales table.
FilterInit ==
    /\ outputs = <<Output(2, 1, 1, Grouped), Output(3, 1, 1, Grouped)>>
    /\ \E t \in SalesTables :
          asg = (1 :> t) @@ (2 :> NorthSumQuery(t)) @@ (3 :> SumQuery(t))
    /\ eq = NoComparison
    /\ dis = NoDisambiguation

\* ------------------------------------------------------------------------
\* Environment.check: the caller, the worker process and the shared record
\* ------------------------------------------------------------------------
Verdicts == {"EQU", "NEQ", "ERR", "TMO"}

\* logged is what the worker handed to logger.error: str(e) of the exception
\* caught at lines 244, 264 or 292.
NoWorker == [pc |-> "idle", succeed_prover |-> "unset", logged |-> "nothing"]
NoResult == [kind |-> "none", is_equivalent |-> "unset", cex |-> NoCex,
             total_time |-> "unset", record |-> NoRet]

\* The process has been started and has neither returned from task nor died.
is_alive == worker.pc \notin {"idle", "exited"}

\* database: one entry per schema[table_idx]["TableName"].lower()
Database == [present |-> TRUE, tables |-> TableNames]

\* `return a, b, None, t, dict(ret)`
Returned(is_equivalent, cex, total_time) ==
    [kind |-> "tuple", is_equivalent |-> is_equivalent, cex |-> cex,
     total_time |-> total_time, record |-> ret]

\* A KeyError leaves check through the `with` block.
Raised == [NoResult EXCEPT !.kind = "KeyError"]

CheckInit ==
    /\ env = EnvInit
    /\ obs = NoCalls
    /\ ppc = "idle"
    /\ worker = NoWorker
    /\ ret = NoRet
    /\ sigterm = FALSE
    /\ cleared = FALSE
    /\ result = NoResult
    /\ calls = 0

\* ---- the worker: task(ret) ----

\* except Exception as e: logger.error(... + str(e)); ret['status'] = 'ERR'; return
WorkerErr ==
    /\ ret' = [ret EXCEPT !.status = "ERR"]
    /\ worker' = [worker EXCEPT !.pc = "exited", !.logged = "str(e)"]

\* Lines 232-247: encode both queries and append the 'neq' goal.
Encode ==
    /\ worker.pc = "encode"
    /\ \/ /\ worker' = [worker EXCEPT !.pc = "solve"]
          /\ UNCHANGED ret
       \/ WorkerErr
    /\ UNCHANGED ovars
    /\ UNCHANGED <<env, ppc, sigterm, cleared, result, calls>>

\* Line 253/255: search or solve_precise returns None (no model), a prover
\* that holds a model, or raises.
Solve ==
    /\ worker.pc = "solve"
    /\ \/ /\ \E p \in {"None", "prover"} :
                worker' = [worker EXCEPT !.pc = "complete_time", !.succeed_prover = p]
          /\ UNCHANGED ret
       \/ WorkerErr
    /\ UNCHANGED ovars
    /\ UNCHANGED <<env, ppc, sigterm, cleared, result, calls>>

\* Line 258: ret['complete_time'] = datetime.datetime.now()
WorkerCompleteTime ==
    /\ worker.pc = "complete_time"
    /\ ret' = [ret EXCEPT !.complete_time = "worker"]
    /\ worker' = [worker EXCEPT !.pc = "total_time"]
    /\ UNCHANGED ovars
    /\ UNCHANGED <<env, ppc, sigterm, cleared, result, calls>>

\* Line 259: ret['total_time'] = total_time
WorkerTotalTime ==
    /\ worker.pc = "total_time"
    /\ ret' = [ret EXCEPT !.total_time = "worker"]
    /\ worker' = [worker EXCEPT !.pc = "verdict"]
    /\ UNCHANGED ovars
    /\ UNCHANGED <<env, ppc, sigterm, cleared, result, calls>>

\* Lines 260-263: no model: ret['status'] = 'EQU'; return
WorkerVerdict ==
    /\ worker.pc = "verdict"
    /\ IF worker.succeed_prover = "None"
       THEN /\ ret' = [ret EXCEPT !.status = "EQU"]
            /\ worker' = [worker EXCEPT !.pc = "exited"]
       ELSE /\ worker' = [worker EXCEPT !.pc = "debug"]
            /\ UNCHANGED ret
    /\ UNCHANGED ovars
    /\ UNCHANGED <<env, ppc, sigterm, cleared, result, calls>>

\* Lines 270-271: evaluate_table on the two outputs, outside every try block:
\* when it raises, task ends without a status.
DebugOutputs ==
    /\ worker.pc = "debug"
    /\ \/ worker' = [worker EXCEPT !.pc = "extract"]
       \/ worker' = [worker EXCEPT !.pc = "exited"]
    /\ UNCHANGED ovars
    /\ UNCHANGED <<env, ppc, ret, sigterm, cleared, result, calls>>

\* Lines 280-287 and 292-295: evaluate_table on every table of the schema.
Extract ==
    /\ worker.pc = "extract"
    /\ \/ /\ worker' = [worker EXCEPT !.pc = "status_neq"]
          /\ UNCHANGED ret
       \/ WorkerErr
    /\ UNCHANGED ovars
    /\ UNCHANGED <<env, ppc, sigterm, cleared, result, calls>>

\* Line 289: ret['status'] = 'NEQ'
WorkerStatusNEQ ==
    /\ worker.pc = "status_neq"
    /\ ret' = [ret EXCEPT !.status = "NEQ"]
    /\ worker' = [worker EXCEPT !.pc = "cex"]
    /\ UNCHANGED ovars
    /\ UNCHANGED <<env, ppc, sigterm, cleared, result, calls>>

\* WorkerCex without the break of line 297: the loop body starts again.
WorkerCex_NoBreak ==
    /\ worker.pc = "cex"
    /\ ret' = [ret EXCEPT !.cex = Database]
    /\ worker' = [worker EXCEPT !.pc = "encode"]
    /\ UNCHANGED ovars
    /\ UNCHANGED <<env, ppc, sigterm, cleared, result, calls>>

\* Line 290 and the break of line 297: ret['cex'] = database
WorkerCex ==
    /\ worker.pc = "cex"
    /\ ret' = [ret EXCEPT !.cex = Database]
    /\ worker' = [worker EXCEPT !.pc = "exited"]
    /\ UNCHANGED ovars
    /\ UNCHANGED <<env, ppc, sigterm, cleared, result, calls>>

\* The SIGTERM of terminate() reaches the worker.
WorkerKilled ==
    /\ sigterm
    /\ is_alive
    /\ worker' = [worker EXCEPT !.pc = "exited"]
    /\ UNCHANGED ovars
    /\ UNCHANGED <<env, ppc, ret, sigterm, cleared, result, calls>>

\* ---- the caller: check(q1, q2) ----

\* No call is running: none was made yet, or the last one returned or raised
\* (check: "returned", "raised"; disambiguate: "d_returned", "d_raised").
Finished == {"idle", "returned", "raised", "d_returned", "d_raised"}

\* Lines 204-305: parse, create the shared dict, start the worker.
Call ==
    /\ ppc \in Finished
    /\ calls < MaxChecks
    /\ calls' = calls + 1
    /\ ret' = NoRet
    /\ worker' = [NoWorker EXCEPT !.pc = "encode"]
    /\ sigterm' = FALSE
    /\ cleared' = FALSE
    /\ result' = NoResult
    /\ ppc' = "join"
    /\ UNCHANGED ovars
    /\ UNCHANGED env

\* Line 306: process.join(self.time_budget) returns when the worker has
\* exited, or when the budget has run out.
Join ==
    /\ ppc = "join"
    /\ ppc' = "is_alive"
    /\ UNCHANGED ovars
    /\ UNCHANGED <<env, worker, ret, sigterm, cleared, result, calls>>

\* Line 308: if process.is_alive()
IsAlive ==
    /\ ppc = "is_alive"
    /\ ppc' = IF is_alive THEN "terminate" ELSE "check_err"
    /\ UNCHANGED ovars
    /\ UNCHANGED <<env, worker, ret, sigterm, cleared, result, calls>>

\* Line 309: process.terminate() sends the signal and returns.
Terminate ==
    /\ ppc = "terminate"
    /\ sigterm' = TRUE
    /\ ppc' = "status_tmo"
    /\ UNCHANGED ovars
    /\ UNCHANGED <<env, worker, ret, cleared, result, calls>>

\* Line 310: ret['status'] = 'TMO'
StatusTMO ==
    /\ ppc = "status_tmo"
    /\ ret' = [ret EXCEPT !.status = "TMO"]
    /\ ppc' = "tmo_complete_time"
    /\ UNCHANGED ovars
    /\ UNCHANGED <<env, worker, sigterm, cleared, result, calls>>

\* Line 311: ret['complete_time'] = datetime.datetime.now()
TMOCompleteTime ==
    /\ ppc = "tmo_complete_time"
    /\ ret' = [ret EXCEPT !.complete_time = "caller"]
    /\ ppc' = "check_err"
    /\ UNCHANGED ovars
    /\ UNCHANGED <<env, worker, sigterm, cleared, result, calls>>

\* Lines 313-314: if ret['status'] == 'ERR': return None, None, None, None, dict(ret)
CheckERR ==
    /\ ppc = "check_err"
    /\ IF ret.status = "none"
       THEN /\ result' = Raised
            /\ ppc' = "raised"
       ELSE IF ret.status = "ERR"
       THEN /\ result' = Returned("None", NoCex, "None")
            /\ ppc' = "returned"
       ELSE /\ ppc' = "total_time"
            /\ UNCHANGED result
    /\ UNCHANGED ovars
    /\ UNCHANGED <<env, worker, ret, sigterm, cleared, calls>>

\* Line 316: total_time = (ret['complete_time'] - start).total_seconds()
TotalTime ==
    /\ ppc = "total_time"
    /\ IF ret.complete_time = "none"
       THEN /\ result' = Raised
            /\ ppc' = "raised"
       ELSE /\ ppc' = "clear"
            /\ UNCHANGED result
    /\ UNCHANGED ovars
    /\ UNCHANGED <<env, worker, ret, sigterm, cleared, calls>>

\* Line 318: self.clear()
Clear ==
    /\ ppc = "clear"
    /\ env' = clear(env)
    /\ cleared' = TRUE
    /\ ppc' = "check_neq"
    /\ UNCHANGED ovars
    /\ UNCHANGED <<worker, ret, sigterm, result, calls>>

\* Line 322: if ret['status'] == 'NEQ'
CheckNEQ ==
    /\ ppc = "check_neq"
    /\ ppc' = IF ret.status = "NEQ" THEN "return_neq" ELSE "check_tmo"
    /\ UNCHANGED ovars
    /\ UNCHANGED <<env, worker, ret, sigterm, cleared, result, calls>>

\* Line 323: return False, ret['cex'], None, total_time, dict(ret)
ReturnNEQ ==
    /\ ppc = "return_neq"
    /\ IF ~ret.cex.present
       THEN /\ result' = Raised
            /\ ppc' = "raised"
       ELSE /\ result' = Returned("False", ret.cex, "seconds")
            /\ ppc' = "returned"
    /\ UNCHANGED ovars
    /\ UNCHANGED <<env, worker, ret, sigterm, cleared, calls>>

\* Line 324: elif ret['status'] == 'TMO'
CheckTMO ==
    /\ ppc = "check_tmo"
    /\ ppc' = IF ret.status = "TMO" THEN "return_tmo" ELSE "return_equ"
    /\ UNCHANGED ovars
    /\ UNCHANGED <<env, worker, ret, sigterm, cleared, result, calls>>

\* Line 325: return None, None, None, total_time, dict(ret)
ReturnTMO ==
    /\ ppc = "return_tmo"
    /\ result' = Returned("None", NoCex, "seconds")
    /\ ppc' = "returned"
    /\ UNCHANGED ovars
    /\ UNCHANGED <<env, worker, ret, sigterm, cleared, calls>>

\* Line 327: return True, None, None, total_time, dict(ret)
ReturnEQU ==
    /\ ppc = "return_equ"
    /\ result' = Returned("True", NoCex, "seconds")
    /\ ppc' = "returned"
    /\ UNCHANGED ovars
    /\ UNCHANGED <<env, worker, ret, sigterm, cleared, calls>>

\* ------------------------------------------------------------------------
\* Environment.disambiguate: the disambiguation formula (lines 361-406)
\* ------------------------------------------------------------------------
num_groups == 2

Max(a, b) == IF a >= b THEN a ELSE b

SMTBelongsToGroup(table_id, g) == dis.belongs[table_id][g]

\* Int(x) for the Python number x = scaled / num_groups.  len(outputs) /
\* num_groups is a float division; a value that is not whole is either kept
\* as it is or cut to its integer part (dis.int_of).  Scaled by num_groups.
IntTerm(scaled) ==
    IF scaled % num_groups = 0 \/ dis.int_of = "exact" THEN scaled
    ELSE IF scaled > 0 THEN scaled - (scaled % num_groups)
    ELSE scaled + ((-scaled) % num_groups)

\* Sum of the indicators of the query q_output over the groups.
GroupsOf(q_output) ==
    Sum([k \in 1..num_groups |->
            IF SMTBelongsToGroup(q_output.table_id, k - 1) THEN 1 ELSE 0])

\* Sum of the indicators of the group g over the queries.
QueriesIn(g) ==
    Sum([k \in 1..Len(outputs) |->
            IF SMTBelongsToGroup(outputs[k].table_id, g) THEN 1 ELSE 0])

\* query_cond with Sum(indicators) == Int(1) left out.
query_cond_AtLeastOne(q_output) ==
    /\ \E g \in 0 .. num_groups - 1 : SMTBelongsToGroup(q_output.table_id, g)
    /\ \A g \in 0 .. num_groups - 1 :
          SMTBelongsToGroup(q_output.table_id, g) =>
              o1_eq_o2(q_output, dis.pre_created_o[g + 1])

\* Lines 373-387: the query is in some group, equal to the table of every
\* group it is in, and in exactly one.
query_cond(q_output) ==
    /\ \E g \in 0 .. num_groups - 1 : SMTBelongsToGroup(q_output.table_id, g)
    /\ \A g \in 0 .. num_groups - 1 :
          SMTBelongsToGroup(q_output.table_id, g) =>
              o1_eq_o2(q_output, dis.pre_created_o[g + 1])
    /\ GroupsOf(q_output) = 1

\* occupancy_cond with max(..., 1) left out of the lower bound.
occupancy_cond_NoFloor(g) ==
    /\ num_groups * QueriesIn(g) >= IntTerm(Len(outputs) - num_groups * dis.group_range)
    /\ num_groups * QueriesIn(g) <= IntTerm(Len(outputs) + num_groups * dis.group_range)

\* Lines 389-398: Sum(indicators) >= Int(max(len(outputs) / num_groups -
\* group_range, 1)) and <= Int(len(outputs) / num_groups + group_range),
\* both sides multiplied by num_groups.
occupancy_cond(g) ==
    /\ num_groups * QueriesIn(g) >=
          IntTerm(Max(Len(outputs) - num_groups * dis.group_range, num_groups))
    /\ num_groups * QueriesIn(g) <= IntTerm(Len(outputs) + num_groups * dis.group_range)

\* Lines 400-404: the group tables are pairwise not equal.
distinct_cond ==
    \A g, another_g \in 0 .. num_groups - 1 :
        another_g # g => ~o1_eq_o2(dis.pre_created_o[g + 1], dis.pre_created_o[another_g + 1])

\* And(disambiguation_cond)
disambiguation_cond ==
    /\ \A k \in 1..Len(outputs) : query_cond(outputs[k])
    /\ \A g \in 0 .. num_groups - 1 : occupancy_cond(g)
    /\ distinct_cond

\* Assignments without nulls.
NullFree(bound, ncols) ==
    [deleted : [0 .. bound - 1 -> BOOLEAN],
     null : [0 .. bound - 1 -> [0 .. ncols - 1 -> {FALSE}]],
     cell : [0 .. bound - 1 -> [0 .. ncols - 1 -> Values]]]

\* Every assignment of the tables of a sequence of outputs.
RECURSIVE TableAssignments(_)
TableAssignments(tables) ==
    IF tables = <<>> THEN { <<>> }
    ELSE { (Head(tables).table_id :> a) @@ f :
               a \in NullFree(Head(tables).bound, Len(Head(tables).columns)),
               f \in TableAssignments(Tail(tables)) }

RECURSIVE Cells(_)
Cells(tables) ==
    IF tables = <<>> THEN 0
    ELSE Head(tables).bound * Len(Head(tables).columns) + Cells(Tail(tables))

RECURSIVE MaxOf(_)
MaxOf(numbers) ==
    IF Len(numbers) = 1 THEN numbers[1] ELSE Max(Head(numbers), MaxOf(Tail(numbers)))

\* Lines 365-371: create_empty_table(row = the largest bound, col = the
\* largest column count) for each group, after the tables of the queries.
pre_created_o(q_outputs) ==
    [g \in 1..num_groups |->
        Output(Len(q_outputs) + 1 + g,
               MaxOf([k \in 1..Len(q_outputs) |-> q_outputs[k].bound]),
               MaxOf([k \in 1..Len(q_outputs) |-> Len(q_outputs[k].columns)]),
               Unsorted)]

\* The outputs of 2..MaxQueries queries, the group tables, and any assignment
\* of their SMT variables and of SMTBelongsToGroup.
DisInit ==
    /\ \E n \in 2..MaxQueries :
       \E bounds \in [1..n -> 0..MaxDisBound], ncols \in [1..n -> 1..MaxCols] :
          LET q_outputs == [k \in 1..n |-> Output(k + 1, bounds[k], ncols[k], Unsorted)]
              tables == q_outputs \o pre_created_o(q_outputs)
          IN  /\ Cells(tables) <= MaxDisCells
              /\ outputs = q_outputs
              /\ asg \in TableAssignments(tables)
              /\ \E belongs \in [2 .. n + 1 -> [0 .. num_groups - 1 -> BOOLEAN]],
                    group_range \in 0..MaxGroupRange,
                    int_of \in (IF n % num_groups = 0 THEN {"exact"}
                                                       ELSE {"exact", "truncated"}) :
                    dis = [calls |-> 0, satisfied |-> FALSE,
                           pre_created_o |-> pre_created_o(q_outputs),
                           belongs |-> belongs, group_range |-> group_range,
                           int_of |-> int_of]
    /\ eq = NoComparison

\* Line 406: self.formulas.append(And(disambiguation_cond), label='disambiguation')
AppendDisambiguation ==
    /\ dis.calls = 0
    /\ dis' = [dis EXCEPT !.calls = 1, !.satisfied = disambiguation_cond]
    /\ UNCHANGED <<outputs, asg, eq, obs>>
    /\ UNCHANGED cvars

\* ------------------------------------------------------------------------
\* Environment.disambiguate: the worker and the caller
\* ------------------------------------------------------------------------
\* Lines 350-410: encode every query and append the disambiguation formula.
DEncode ==
    /\ worker.pc = "d_encode"
    /\ \/ /\ worker' = [worker EXCEPT !.pc = "d_solve"]
          /\ UNCHANGED ret
       \/ WorkerErr
    /\ UNCHANGED ovars
    /\ UNCHANGED <<env, ppc, sigterm, cleared, result, calls>>

\* Lines 414-418 and 427-430: search or solve_precise.
DSolve ==
    /\ worker.pc = "d_solve"
    /\ \/ /\ \E p \in {"None", "prover"} :
                worker' = [worker EXCEPT !.pc = "d_complete_time", !.succeed_prover = p]
          /\ UNCHANGED ret
       \/ WorkerErr
    /\ UNCHANGED ovars
    /\ UNCHANGED <<env, ppc, sigterm, cleared, result, calls>>

\* Line 421: ret['complete_time'] = datetime.datetime.now()
DWorkerCompleteTime ==
    /\ worker.pc = "d_complete_time"
    /\ ret' = [ret EXCEPT !.complete_time = "worker"]
    /\ worker' = [worker EXCEPT !.pc = "d_total_time"]
    /\ UNCHANGED ovars
    /\ UNCHANGED <<env, ppc, sigterm, cleared, result, calls>>

\* Line 422: ret['total_time'] = total_time
DWorkerTotalTime ==
    /\ worker.pc = "d_total_time"
    /\ ret' = [ret EXCEPT !.total_time = "worker"]
    /\ worker' = [worker EXCEPT !.pc = "d_verdict"]
    /\ UNCHANGED ovars
    /\ UNCHANGED <<env, ppc, sigterm, cleared, result, calls>>

\* Lines 423-426: no model: ret['status'] = 'EQU'; return
DWorkerVerdict ==
    /\ worker.pc = "d_verdict"
    /\ IF worker.succeed_prover = "None"
       THEN /\ ret' = [ret EXCEPT !.status = "EQU"]
            /\ worker' = [worker EXCEPT !.pc = "exited"]
       ELSE /\ worker' = [worker EXCEPT !.pc = "d_extract"]
            /\ UNCHANGED ret
    /\ UNCHANGED ovars
    /\ UNCHANGED <<env, ppc, sigterm, cleared, result, calls>>

\* Lines 432-439 and 444-447: evaluate_table on every table of the schema.
DExtract ==
    /\ worker.pc = "d_extract"
    /\ \/ /\ worker' = [worker EXCEPT !.pc = "d_status_neq"]
          /\ UNCHANGED ret
       \/ WorkerErr
    /\ UNCHANGED ovars
    /\ UNCHANGED <<env, ppc, sigterm, cleared, result, calls>>

\* Line 441: ret['status'] = 'NEQ'
DWorkerStatusNEQ ==
    /\ worker.pc = "d_status_neq"
    /\ ret' = [ret EXCEPT !.status = "NEQ"]
    /\ worker' = [worker EXCEPT !.pc = "d_cex"]
    /\ UNCHANGED ovars
    /\ UNCHANGED <<env, ppc, sigterm, cleared, result, calls>>

\* Line 442: ret['cex'] = database
DWorkerCex ==
    /\ worker.pc = "d_cex"
    /\ ret' = [ret EXCEPT !.cex = Database]
    /\ worker' = [worker EXCEPT !.pc = "exited"]
    /\ UNCHANGED ovars
    /\ UNCHANGED <<env, ppc, sigterm, cleared, result, calls>>

\* Lines 329-455: parse, create the shared dict, start the worker.
DCall ==
    /\ ppc \in Finished
    /\ calls < MaxChecks
    /\ calls' = calls + 1
    /\ ret' = NoRet
    /\ worker' = [NoWorker EXCEPT !.pc = "d_encode"]
    /\ sigterm' = FALSE
    /\ cleared' = FALSE
    /\ result' = NoResult
    /\ ppc' = "d_join"
    /\ UNCHANGED ovars
    /\ UNCHANGED env

\* Line 456: process.join(self.time_budget)
DJoin ==
    /\ ppc = "d_join"
    /\ ppc' = "d_is_alive"
    /\ UNCHANGED ovars
    /\ UNCHANGED <<env, worker, ret, sigterm, cleared, result, calls>>

\* Line 458: if process.is_alive()
DIsAlive ==
    /\ ppc = "d_is_alive"
    /\ ppc' = IF is_alive THEN "d_terminate" ELSE "d_total_time"
    /\ UNCHANGED ovars
    /\ UNCHANGED <<env, worker, ret, sigterm, cleared, result, calls>>

\* Line 459: process.terminate()
DTerminate ==
    /\ ppc = "d_terminate"
    /\ sigterm' = TRUE
    /\ ppc' = "d_status_tmo"
    /\ UNCHANGED ovars
    /\ UNCHANGED <<env, worker, ret, cleared, result, calls>>

\* Line 460: ret['status'] = 'TMO'
DStatusTMO ==
    /\ ppc = "d_status_tmo"
    /\ ret' = [ret EXCEPT !.status = "TMO"]
    /\ ppc' = "d_tmo_complete_time"
    /\ UNCHANGED ovars
    /\ UNCHANGED <<env, worker, sigterm, cleared, result, calls>>

\* Line 461: ret['complete_time'] = datetime.datetime.now()
DTMOCompleteTime ==
    /\ ppc = "d_tmo_complete_time"
    /\ ret' = [ret EXCEPT !.complete_time = "caller"]
    /\ ppc' = "d_total_time"
    /\ UNCHANGED ovars
    /\ UNCHANGED <<env, worker, sigterm, cleared, result, calls>>

\* Line 463: total_time = (ret['complete_time'] - start).total_seconds(),
\* before any test of the status.
DTotalTime ==
    /\ ppc = "d_total_time"
    /\ IF ret.complete_time = "none"
       THEN /\ result' = Raised
            /\ ppc' = "d_raised"
       ELSE /\ ppc' = "d_clear"
            /\ UNCHANGED result
    /\ UNCHANGED ovars
    /\ UNCHANGED <<env, worker, ret, sigterm, cleared, calls>>

\* Line 465: self.clear()
DClear ==
    /\ ppc = "d_clear"
    /\ env' = clear(env)
    /\ cleared' = TRUE
    /\ ppc' = "d_check_err"
    /\ UNCHANGED ovars
    /\ UNCHANGED <<worker, ret, sigterm, result, calls>>

\* Lines 469-470: if ret['status'] == 'ERR': return None, None, None, total_time, dict(ret)
DCheckERR ==
    /\ ppc = "d_check_err"
    /\ IF ret.status = "none"
       THEN /\ result' = Raised
            /\ ppc' = "d_raised"
       ELSE IF ret.status = "ERR"
       THEN /\ result' = Returned("None", NoCex, "seconds")
            /\ ppc' = "d_returned"
       ELSE /\ ppc' = "d_check_neq"
            /\ UNCHANGED result
    /\ UNCHANGED ovars
    /\ UNCHANGED <<env, worker, ret, sigterm, cleared, calls>>

\* Line 472: if ret['status'] == 'NEQ'
DCheckNEQ ==
    /\ ppc = "d_check_neq"
    /\ ppc' = IF ret.status = "NEQ" THEN "d_return_neq" ELSE "d_check_tmo"
    /\ UNCHANGED ovars
    /\ UNCHANGED <<env, worker, ret, sigterm, cleared, result, calls>>

\* Line 473: return False, ret['cex'], None, total_time, dict(ret)
DReturnNEQ ==
    /\ ppc = "d_return_neq"
    /\ IF ~ret.cex.present
       THEN /\ result' = Raised
            /\ ppc' = "d_raised"
       ELSE /\ result' = Returned("False", ret.cex, "seconds")
            /\ ppc' = "d_returned"
    /\ UNCHANGED ovars
    /\ UNCHANGED <<env, worker, ret, sigterm, cleared, calls>>

\* Line 474: elif ret['status'] == 'TMO'
DCheckTMO ==
    /\ ppc = "d_check_tmo"
    /\ ppc' = IF ret.status = "TMO" THEN "d_return_tmo" ELSE "d_return_equ"
    /\ UNCHANGED ovars
    /\ UNCHANGED <<env, worker, ret, sigterm, cleared, result, calls>>

\* Line 475: return None, None, None, total_time, dict(ret)
DReturnTMO ==
    /\ ppc = "d_return_tmo"
    /\ result' = Returned("None", NoCex, "seconds")
    /\ ppc' = "d_returned"
    /\ UNCHANGED ovars
    /\ UNCHANGED <<env, worker, ret, sigterm, cleared, calls>>

\* Line 477: return True, None, None, total_time, dict(ret)
DReturnEQU ==
    /\ ppc = "d_return_equ"
    /\ result' = Returned("True", NoCex, "seconds")
    /\ ppc' = "d_returned"
    /\ UNCHANGED ovars
    /\ UNCHANGED <<env, worker, ret, sigterm, cleared, calls>>

\* ------------------------------------------------------------------------
\* Direct calls of the environment's methods by the caller
\* ------------------------------------------------------------------------
IdleCaller ==
    /\ ppc = "idle"
    /\ worker = NoWorker
    /\ ret = NoRet
    /\ sigterm = FALSE
    /\ cleared = FALSE
    /\ result = NoResult
    /\ calls = 0

\* env.next_table_id(), as every encoder does for the table it creates
NextTableId ==
    /\ ppc = "idle"
    /\ Len(obs.ids) < Len(env.db) + MaxTableIds
    /\ env' = next_table_id(env)
    /\ obs' = [obs EXCEPT !.op = "next_table_id",
                          !.code = env'.table_id_counter,
                          !.ids = Append(@, env'.table_id_counter)]
    /\ UNCHANGED <<outputs, asg, eq, dis, ppc, worker, ret, sigterm, cleared,
                   result, calls>>

\* env.clear(): the reset
CallClear ==
    /\ ppc = "idle"
    /\ obs.resets < MaxResets
    /\ env' = clear(env)
    /\ obs' = [Calls(env', obs.hash) EXCEPT !.op = "clear", !.resets = obs.resets + 1]
    /\ UNCHANGED <<outputs, asg, eq, dis, ppc, worker, ret, sigterm, cleared,
                   result, calls>>

\* env.string_hash(x)
StringHash ==
    /\ ppc = "idle"
    /\ \E x \in Inputs :
          LET call == string_hash(env, obs.hash, x)
              changed == call.env.hash_string_table # env.hash_string_table
                         \/ call.env.string_hash_table # env.string_hash_table
          IN  /\ env' = call.env
              /\ obs' = [obs EXCEPT !.op = "string_hash",
                                    !.string = call.string,
                                    !.code = call.ret,
                                    !.raised = FALSE,
                                    !.first = IF DictHas(@, call.string) THEN @
                                              ELSE DictSet(@, call.string, call.ret),
                                    !.memo = IF changed THEN NoMemo ELSE @]
    /\ UNCHANGED <<outputs, asg, eq, dis, ppc, worker, ret, sigterm, cleared,
                   result, calls>>

\* env.lookup_string(code)
LookupString ==
    /\ ppc = "idle"
    /\ \E code \in LookupCodes :
          LET call == lookup_string(env, code)
              changed == call.env.hash_string_table # env.hash_string_table
                         \/ call.env.string_hash_table # env.string_hash_table
          IN  /\ env' = call.env
              /\ obs' = [obs EXCEPT !.op = "lookup_string",
                                    !.code = code,
                                    !.string = call.value,
                                    !.raised = call.raised,
                                    !.memo = IF ~changed /\ @.present THEN @
                                             ELSE [present |-> TRUE, code |-> code,
                                                   raised |-> call.raised,
                                                   string |-> call.value]]
    /\ UNCHANGED <<outputs, asg, eq, dis, ppc, worker, ret, sigterm, cleared,
                   result, calls>>

\* ------------------------------------------------------------------------
\* Specifications
\* ------------------------------------------------------------------------
\* One fixed pair of outputs, for the runs that are about check.
IdleOracle ==
    /\ outputs = <<Output(2, 0, 1, [lineage |-> None, expressions |-> <<>>]),
                   Output(3, 0, 1, [lineage |-> None, expressions |-> <<>>])>>
    /\ asg \in [{2, 3} -> Assignments(0, 1)]
    /\ eq = NoComparison
    /\ dis = NoDisambiguation

Init == IdleOracle /\ CheckInit

Next ==
    \/ Call \/ Join \/ IsAlive \/ Terminate \/ StatusTMO \/ TMOCompleteTime
    \/ CheckERR \/ TotalTime \/ Clear \/ CheckNEQ \/ ReturnNEQ \/ CheckTMO
    \/ ReturnTMO \/ ReturnEQU
    \/ Encode \/ Solve \/ WorkerCompleteTime \/ WorkerTotalTime \/ WorkerVerdict
    \/ DebugOutputs \/ Extract \/ WorkerStatusNEQ \/ WorkerCex \/ WorkerKilled
    \/ DCall \/ DJoin \/ DIsAlive \/ DTerminate \/ DStatusTMO \/ DTMOCompleteTime
    \/ DTotalTime \/ DClear \/ DCheckERR \/ DCheckNEQ \/ DReturnNEQ \/ DCheckTMO
    \/ DReturnTMO \/ DReturnEQU
    \/ DEncode \/ DSolve \/ DWorkerCompleteTime \/ DWorkerTotalTime
    \/ DWorkerVerdict \/ DExtract \/ DWorkerStatusNEQ \/ DWorkerCex

Spec == Init /\ [][Next]_vars

OracleSpecInit == OracleInit /\ CheckInit

OracleNext == OracleCall \/ OracleCallSwapped

OracleSpec == OracleSpecInit /\ [][OracleNext]_vars

\* o1_eq_o2 on the outputs of the two queries of test_if_expression.
IfSpecInit == IfInit /\ CheckInit

IfSpec == IfSpecInit /\ [][OracleNext]_vars

\* o1_eq_o2 on the outputs of the two queries of test_filter_clause.
FilterSpecInit == FilterInit /\ CheckInit

FilterSpec == FilterSpecInit /\ [][OracleNext]_vars

\* The disambiguation formula over the outputs of the queries.
DisSpecInit == DisInit /\ CheckInit

DisNext == AppendDisambiguation

DisSpec == DisSpecInit /\ [][DisNext]_vars

\* Table ids and column ids: an environment over a drawn schema, whose first
\* table lists its columns in the names a, A and b.
Names == {"a", "A", "b"}

SeqsUpTo(S, n) == UNION { [1..k -> S] : k \in 0..n }

DrawnTables ==
    { [TableName |-> "t", PKeys |-> pkeys, FKeys |-> fkeys, Others |-> others] :
        pkeys \in SeqsUpTo(Names, MaxKeys), fkeys \in SeqsUpTo(Names, MaxKeys - 1),
        others \in SeqsUpTo(Names, MaxKeys) }

Schemas == { <<table>> : table \in DrawnTables }
           \cup { <<table, Schema[2]>> : table \in DrawnTables }

SchemaSpecInit ==
    /\ IdleOracle
    /\ IdleCaller
    /\ \E schema \in Schemas : env = Environment(schema, <<>>)
    /\ obs = Calls(env, NoCalls.hash)

SchemaNext == NextTableId \/ CallClear

SchemaSpec == SchemaSpecInit /\ [][SchemaNext]_vars

\* The interning tables of the environment of create_test_env, under every
\* builtin hash of the strings that are no int literal.
Hashes == [{ string \in Strings : ~IsIntLiteral(string) } -> {-3, 7}]

InternSpecInit ==
    /\ IdleOracle
    /\ IdleCaller
    /\ env = EnvInit
    /\ \E hashes \in Hashes : obs = Calls(EnvInit, hashes)

InternNext == StringHash \/ LookupString \/ CallClear

InternSpec == InternSpecInit /\ [][InternNext]_vars

\* ------------------------------------------------------------------------
\* Relations read off an assignment, for the properties of the oracle
\* ------------------------------------------------------------------------
KeptSlots(o) == { i \in 0 .. o.bound - 1 : ~asg[o.table_id].deleted[i] }

LogicalSize(o) == Cardinality(KeptSlots(o))

SameColumnCount == Len(outputs[1].columns) = Len(outputs[2].columns)

IsSorted(o) == "Sorted" \in o.lineage

\* What a cell holds for SQL: null, or a value.
CellValue(o, i, position) ==
    LET column_id == o.columns[position] IN
    IF asg[o.table_id].null[i][column_id]
    THEN <<"null", 0>>
    ELSE <<"value", asg[o.table_id].cell[i][column_id]>>

RowValue(o, i) == [position \in 1..Len(o.columns) |-> CellValue(o, i, position)]

Multiplicity(o, row) == Cardinality({ i \in KeptSlots(o) : RowValue(o, i) = row })

\* The two outputs hold the same multiset of rows.
BagEqual(o1, o2) ==
    \A row \in { RowValue(o1, i) : i \in KeptSlots(o1) } \cup { RowValue(o2, j) : j \in KeptSlots(o2) } :
        Multiplicity(o1, row) = Multiplicity(o2, row)

\* The columns that o's ORDER BY list names by position.
SortPositions(o) ==
    { o.expressions[k].value : k \in { k \in 1..Len(o.expressions) : o.expressions[k].type = "int" } }

\* ------------------------------------------------------------------------
\* Properties of the oracle (specification OracleSpec)
\* ------------------------------------------------------------------------

\* C3: with different column counts, the 'not equal' goal that check asserts
\* is true exactly when at least one of the two outputs is non-empty.
C3_NeqGoalIffSomeOutputNonEmpty ==
    (eq.calls >= 1 /\ ~SameColumnCount) =>
        (eq.neq <=> (LogicalSize(outputs[1]) > 0 \/ LogicalSize(outputs[2]) > 0))

\* C4: with equal column counts and at least one side not 'Sorted',
\* o1_eq_o2 is true exactly when the two outputs hold the same multiset of
\* non-deleted rows, whatever the bounds and wherever the deleted slots are.
C4_BagEquality ==
    (eq.calls >= 1 /\ SameColumnCount /\ ~(IsSorted(outputs[1]) /\ IsSorted(outputs[2]))) =>
        (eq.fwd <=> BagEqual(outputs[1], outputs[2]))

\* Two equal bags under unequal bounds, with a deleted slot in front of a
\* kept one, found equal.
C4_Witness ==
    /\ eq.calls >= 1
    /\ SameColumnCount
    /\ ~(IsSorted(outputs[1]) /\ IsSorted(outputs[2]))
    /\ outputs[1].bound # outputs[2].bound
    /\ LogicalSize(outputs[1]) > 0
    /\ \E i \in KeptSlots(outputs[2]) : i > 0 /\ (i - 1) \notin KeptSlots(outputs[2])
    /\ eq.fwd

\* C5: o1_eq_o2(o1, o2) and o1_eq_o2(o2, o1) have the same truth value.
C5_Symmetric ==
    eq.calls = 2 => (eq.fwd <=> eq.bwd)

\* C6: a row that is null in a column never matches a row that is non-null
\* in that column, whatever the value cells hold: such a pair of rows is no
\* match for f_multiplicity, and an output with a kept row that no kept row
\* of the other output agrees with on nulls is not equal to it.
C6_NullNeverMatchesNonNull ==
    (eq.calls >= 1 /\ SameColumnCount) =>
        LET o1 == outputs[1]
            o2 == outputs[2]
            NullsDiffer(i, j) ==
                \E position \in 1..Len(o1.columns) :
                    asg[o1.table_id].null[i][o1.columns[position]]
                        # asg[o2.table_id].null[j][o2.columns[position]]
        IN  /\ \A i \in 0 .. o1.bound - 1, j \in 0 .. o2.bound - 1 :
                  NullsDiffer(i, j) => ~tuple_eq(o2, j, TupleOf(o1, i))
            /\ (\E i \in KeptSlots(o1) : \A j \in KeptSlots(o2) : NullsDiffer(i, j)) => ~eq.fwd

\* A null cell and a non-null cell over the same value, in the only kept
\* rows of the two outputs, found not equal.
C6_Witness ==
    /\ eq.calls >= 1
    /\ SameColumnCount
    /\ LogicalSize(outputs[1]) = 1
    /\ LogicalSize(outputs[2]) = 1
    /\ \E i \in KeptSlots(outputs[1]), j \in KeptSlots(outputs[2]) :
          /\ asg[2].null[i][0]
          /\ ~asg[3].null[j][0]
          /\ asg[2].cell[i] = asg[3].cell[j]
    /\ ~eq.fwd

KeptPositionsMatch(o1, o2) ==
    \A tuple_id \in KeptSlots(o1) :
        tuple_id < o2.bound =>
            \A position \in SortPositions(o1) :
                CellValue(o1, tuple_id, position) = CellValue(o2, tuple_id, position)

SameContents ==
    /\ outputs[1].bound = outputs[2].bound
    /\ SameColumnCount
    /\ asg[outputs[1].table_id] = asg[outputs[2].table_id]

\* C8: two outputs with the same bound, the same deleted flags and the same
\* cell and null values slot by slot are equal for the oracle, so the 'neq'
\* goal is false in every such assignment, in the bag and the 'Sorted' case.
C8_Reflexive ==
    (eq.calls >= 1 /\ SameContents) => (eq.fwd /\ ~eq.neq)

\* Two 'Sorted' outputs with the same contents, among them a kept row with a
\* null cell, found equal.
C8_Witness ==
    /\ eq.calls >= 1
    /\ SameContents
    /\ IsSorted(outputs[1]) /\ IsSorted(outputs[2])
    /\ \E i \in KeptSlots(outputs[1]) : asg[2].null[i][0]
    /\ eq.fwd

\* ------------------------------------------------------------------------
\* Properties of check (specification Spec)
\* ------------------------------------------------------------------------

\* C1: whatever the worker does, check returns a 5-tuple whose status record
\* has one of the four verdicts, and no exception reaches the caller.
C1_AlwaysAVerdict ==
    /\ ppc # "raised"
    /\ ppc = "returned" => (result.kind = "tuple" /\ result.record.status \in Verdicts)

\* C2: clear() has run whenever check returns, in each terminal state.
C2_ClearBeforeReturn ==
    ppc = "returned" => cleared

\* C9: the returned tuple follows the solver: True only after UNSAT, with
\* status EQU and no counterexample; False only after SAT, with status NEQ and
\* a counterexample holding one entry per schema table; None exactly when the
\* status is ERR or TMO, and then with no counterexample.
C9_ResultFollowsSolver ==
    ppc = "returned" =>
        /\ result.is_equivalent = "True" =>
              /\ worker.succeed_prover = "None"
              /\ result.record.status = "EQU"
              /\ ~result.cex.present
        /\ result.is_equivalent = "False" =>
              /\ worker.succeed_prover = "prover"
              /\ result.record.status = "NEQ"
              /\ result.cex.present
              /\ result.cex.tables = TableNames
        /\ result.is_equivalent = "None" <=> result.record.status \in {"ERR", "TMO"}
        /\ result.is_equivalent = "None" => ~result.cex.present

\* C10: when the budget ran out with the worker alive, check returns the TMO
\* verdict, is_equivalent None and no counterexample, and the result holds
\* nothing the worker wrote.
C10_TimeoutDiscardsWorkerState ==
    (sigterm /\ ppc \in {"returned", "raised"}) =>
        /\ ppc = "returned"
        /\ result.is_equivalent = "None"
        /\ ~result.cex.present
        /\ result.record.status = "TMO"
        /\ ~result.record.cex.present
        /\ result.record.total_time = "none"
        /\ result.record.complete_time = "caller"

\* C11: with the worker's behaviour fixed, a check cut short by its budget
\* returns what the full run returns or TMO, never the opposite verdict: once
\* the solver has reported a model no result says True, and once it has
\* reported that there is none no result says False.
C11_TimeoutMonotonic ==
    ppc = "returned" =>
        /\ worker.succeed_prover = "prover" => result.is_equivalent # "True"
        /\ worker.succeed_prover = "None" => result.is_equivalent # "False"

\* C12: when the worker caught an exception, check returns the ERR verdict
\* and the returned status record holds the text of that exception.
C12_ErrCarriesExceptionText ==
    (ppc = "returned" /\ worker.logged # "nothing") =>
        /\ result.record.status = "ERR"
        /\ \E key \in {"status", "complete_time", "total_time"} :
              result.record[key] = worker.logged

\* C13: whenever a call has ended, the environment the next call starts from
\* is the environment right after construction.
C13_NoStateSurvives ==
    ppc \in Finished => env = EnvInit

\* The position of the worker in the body of `while True`.
WorkerRank(pc) ==
    CASE pc = "idle" -> 0 [] pc = "encode" -> 1 [] pc = "solve" -> 2
      [] pc = "complete_time" -> 3 [] pc = "total_time" -> 4
      [] pc = "verdict" -> 5 [] pc = "debug" -> 6 [] pc = "extract" -> 7
      [] pc = "status_neq" -> 8 [] pc = "cex" -> 9 [] pc = "exited" -> 10
      [] OTHER -> 0

\* C14: within one call of check the worker only moves forward through the
\* loop body: it encodes once, solves at most once, and after an exception,
\* a verdict or the kill it never starts another pass.
C14_NoRetry ==
    [][(calls' = calls /\ worker' # worker /\ WorkerRank(worker.pc) > 0) =>
          WorkerRank(worker'.pc) > WorkerRank(worker.pc)]_vars

\* A worker that went through the whole loop body once and left it by the
\* break, and one that left it by an exception handler.
C14_Witness ==
    /\ worker.pc = "exited"
    /\ \/ ret.status = "NEQ" /\ ret.cex.present
       \/ ret.status = "ERR" /\ worker.logged # "nothing"

\* ------------------------------------------------------------------------
\* Properties of the queries of test_polygon_extensions
\* ------------------------------------------------------------------------
\* The kept rows of employees on which salary > 100000 is false or unknown.
NotHighRows ==
    { i \in 0 .. EnvBound - 1 :
        /\ ~asg[0].deleted[i]
        /\ \/ asg[0].null[i][2]
           \/ asg[0].cell[i][2] <= SalaryLimit }

\* C15: row by row the IF column is 'High' when salary > 100000, 'Low' when
\* it is not and null when salary is null; and the 'neq' goal of
\* check(IF(salary > 100000, 'High', 'Low'), 'High') holds exactly in the
\* databases that keep a row whose salary is not above 100000, so that within
\* the bound the solver has a model and the verdict is NEQ.
C15_IfDiffersFromHigh ==
    /\ \A i \in 0 .. EnvBound - 1 :
          /\ asg[2].null[i][0] = asg[0].null[i][2]
          /\ ~asg[0].null[i][2] =>
                asg[2].cell[i][0] = (IF asg[0].cell[i][2] > SalaryLimit THEN "High" ELSE "Low")
    /\ eq.calls >= 1 => (eq.neq <=> NotHighRows # {})

\* A database with a row of salary 100000 and a row of salary 100001, on
\* which the two outputs were found different.
C15_Witness ==
    /\ eq.calls >= 1
    /\ eq.neq
    /\ \E i, j \in 0 .. EnvBound - 1 :
          /\ ~asg[0].deleted[i] /\ ~asg[0].null[i][2] /\ asg[0].cell[i][2] = SalaryLimit
          /\ ~asg[0].deleted[j] /\ ~asg[0].null[j][2] /\ asg[0].cell[j][2] > SalaryLimit

\* The kept rows of sales with an amount, by whether region = 'North' holds.
NorthRows ==
    { i \in 0 .. EnvBound - 1 :
        /\ ~asg[1].deleted[i] /\ ~asg[1].null[i][1]
        /\ ~asg[1].null[i][2] /\ asg[1].cell[i][2] = "North" }

OtherRows ==
    { i \in 0 .. EnvBound - 1 :
        /\ ~asg[1].deleted[i] /\ ~asg[1].null[i][1]
        /\ asg[1].null[i][2] \/ asg[1].cell[i][2] # "North" }

OtherSum == Sum([k \in 1..EnvBound |-> IF k - 1 \in OtherRows THEN asg[1].cell[k - 1][1] ELSE 0])

C17_SameShapeAsCheck ==
    /\ ppc # "d_raised"
    /\ ppc = "d_returned" =>
          /\ result.kind = "tuple"
          /\ result.record.status \in Verdicts

\* ------------------------------------------------------------------------
\* Properties of the disambiguation formula (specification DisSpec)
\* ------------------------------------------------------------------------
Queries == 1..Len(outputs)
Groups == 0 .. num_groups - 1

\* The groups the assignment puts the k-th query in.
GroupsHolding(k) == { g \in Groups : dis.belongs[outputs[k].table_id][g] }

\* The queries the assignment puts in group g.
Members(g) == { k \in Queries : dis.belongs[outputs[k].table_id][g] }

\* C18: in an assignment that satisfies the formula every query is in
\* exactly one group, and its output is equal, for o1_eq_o2, to that group's
\* table.
C18_ExactlyOneGroup ==
    (dis.calls >= 1 /\ dis.satisfied) =>
        \A k \in Queries :
            /\ Cardinality(GroupsHolding(k)) = 1
            /\ \A g \in GroupsHolding(k) : o1_eq_o2(outputs[k], dis.pre_created_o[g + 1])

\* Three queries split over the two groups by a satisfying assignment.
C18_Witness ==
    /\ dis.calls >= 1
    /\ dis.satisfied
    /\ Len(outputs) = 3
    /\ \A g \in Groups : Members(g) # {}

\* C19: in an assignment that satisfies the formula two queries in different
\* groups have outputs that o1_eq_o2 finds not equal, whatever their column
\* counts and bounds.
C19_DifferentGroupsDiffer ==
    (dis.calls >= 1 /\ dis.satisfied) =>
        \A k1, k2 \in Queries :
            (GroupsHolding(k1) \cap GroupsHolding(k2) = {}) =>
                ~o1_eq_o2(outputs[k1], outputs[k2])

\* C20: in an assignment that satisfies the formula the number of queries of
\* each group is at least 1 and within group_range of len(outputs) /
\* num_groups.
C20_OccupancyWithinRange ==
    (dis.calls >= 1 /\ dis.satisfied) =>
        \A g \in Groups :
            /\ Cardinality(Members(g)) >= 1
            /\ num_groups * Cardinality(Members(g)) >=
                  Len(outputs) - num_groups * dis.group_range
            /\ num_groups * Cardinality(Members(g)) <=
                  Len(outputs) + num_groups * dis.group_range

\* Three queries and group_range 1: a satisfying assignment with two queries
\* in one group and one in the other.
C20_Witness ==
    /\ dis.calls >= 1
    /\ dis.satisfied
    /\ Len(outputs) = 3
    /\ dis.group_range = 1
    /\ \E g \in Groups : Cardinality(Members(g)) = 2

\* ------------------------------------------------------------------------
\* Table ids, column ids and the interning tables
\* ------------------------------------------------------------------------
\* C21: between two resets the table ids that next_table_id returns are
\* 0, 1, 2, ... in the order of the calls, so the tables of the database
\* and the tables created after them have pairwise different ids; and in
\* every table that load_schema built the column ids are pairwise different,
\* also when PKeys, FKeys and Others list a name more than once.
C21_IdsUnique ==
    /\ \A i \in 1..Len(obs.ids) : obs.ids[i] = i - 1
    /\ \A i, j \in 1..Len(env.db) : i # j => env.db[i].table_id # env.db[j].table_id
    /\ \A t \in 1..Len(env.db) :
          \A i, j \in 1..Len(env.db[t].columns) :
              i # j => env.db[t].columns[i].column_id # env.db[t].columns[j].column_id

\* A reset has happened, two base tables and MaxTableIds further tables have
\* their ids, and the first table lists the name a twice in PKeys, again in
\* FKeys and again in Others.
C21_Witness ==
    /\ obs.op = "next_table_id"
    /\ obs.resets > 0
    /\ Len(env.db) = 2
    /\ Len(obs.ids) = Len(env.db) + MaxTableIds
    /\ env.schema[1].PKeys = <<"a", "A">>
    /\ env.schema[1].FKeys = <<"a">>
    /\ env.schema[1].Others = <<"b", "a">>
    /\ Len(env.db[1].columns) = 3

\* C22: every call of string_hash returns the code that the first call for
\* that string since the last reset returned, and a call for a string that
\* is already interned changes neither string_hash_table nor
\* hash_string_table, whatever calls of string_hash and lookup_string came
\* before.
C22_CodeNeverRecomputed ==
    [][obs'.op = "string_hash" =>
          /\ obs'.code = DictGet(obs'.first, obs'.string)
          /\ DictHas(env.string_hash_table, obs'.string) =>
                /\ env'.string_hash_table = env.string_hash_table
                /\ env'.hash_string_table = env.hash_string_table]_vars

\* string_hash has been called again for "7" after "07" was interned and
\* after a lookup_string: the tables hold both strings, "7" first.
C22_Witness ==
    /\ obs.op = "string_hash"
    /\ obs.string = <<"7">>
    /\ obs.code = 7
    /\ obs.memo.present
    /\ Len(env.string_hash_table) >= 2
    /\ env.string_hash_table[1][1] = <<"7">>
    /\ env.string_hash_table[2][1] = <<"0", "7">>

\* C23: a call of lookup_string raises nothing and returns a str for every
\* code, negative or not, and every state of the interning tables, empty or
\* not; it leaves string_hash_table and hash_string_table as they were; and
\* it returns what the earlier call for the same code returned while the
\* tables have not changed.
C23_LookupNeverFails ==
    [][obs'.op = "lookup_string" =>
          /\ ~obs'.raised
          /\ obs'.string # <<>>
          /\ env'.string_hash_table = env.string_hash_table
          /\ env'.hash_string_table = env.hash_string_table
          /\ (obs.memo.present /\ obs.memo.code = obs'.code) =>
                (obs'.string = obs.memo.string /\ obs'.raised = obs.memo.raised)]_vars

\* lookup_string(-1) has returned the pseudo-string of the second of two
\* interned strings, after an earlier lookup of another code in the same
\* state of the tables.
C23_Witness ==
    /\ obs.op = "lookup_string"
    /\ obs.code = -1
    /\ ~obs.raised
    /\ Len(env.hash_string_table) = 2
    /\ ~DictHas(env.hash_string_table, -1)
    /\ obs.string = env.hash_string_table[2][2] \o <<"-", "1">>
    /\ obs.memo.present
    /\ obs.memo.code = 9

\* C24: once the caller of check has found the worker alive after the join,
\* has called terminate and has written the status TMO, the call returns the
\* TMO verdict whatever the worker writes in between: it does not raise on a
\* cex that is not there, it returns is_equivalent None and no counterexample,
\* the returned record has the status TMO, and a record with the status TMO
\* holds no cex of the worker.
C24_DeadlineRaceFree ==
    (sigterm /\ ppc \in {"returned", "raised"}) =>
        /\ ppc # "raised"
        /\ result.is_equivalent = "None"
        /\ ~result.cex.present
        /\ result.record.status = "TMO"
        /\ ~result.record.cex.present

\* C25: every interned string is what lookup_string returns for its code,
\* and no two interned strings have the same code.
C25_RoundTrip ==
    /\ \A i \in 1..Len(env.string_hash_table) :
          LET call == lookup_string(env, env.string_hash_table[i][2])
          IN  ~call.raised /\ call.value = env.string_hash_table[i][1]
    /\ \A i, j \in 1..Len(env.string_hash_table) :
          i # j => env.string_hash_table[i][2] # env.string_hash_table[j][2]


====
